---- MODULE Spec2Model ----
(***************************************************************************)
(* Model of the two screens of the taxi front end:                         *)
(*   BookingRoutes   (rider: search, route, booking, status poller)        *)
(*   DriverDashboard (driver: availability toggle, pending-rides poller)   *)
(*                                                                         *)
(* Both run on the browser's single-threaded event loop.  One action of    *)
(* the model is one task of that loop: the synchronous part of a handler,  *)
(* or the continuation that runs when an awaited request settles.  A       *)
(* promise rejected by abort() is handled in a microtask, before any other *)
(* task: the queue `micro` holds those continuations and every task waits  *)
(* for it to be empty.  alert() blocks the loop: `modal` holds the alert   *)
(* shown and what the handler does once it is dismissed.                   *)
(***************************************************************************)
EXTENDS Integers, Sequences, FiniteSets, TLC

\* ---------------------------------------------------------------- bounds
\* Requests (status + fallback, or pending-rides) a poller may have in flight.
MaxInFlight == 2
\* Bookings the backend creates in one run.
MaxBookings == 2

\* ------------------------------------------------------- program constants
RiderPollPeriod == 3000
FastInterval == 1000
SlowInterval == 10000
DefaultInterval == 5000
FareRate == 50

NULL == "null"
NoTimer == 0

\* Values a booking status response may carry (spec 3: Booking.status).
Statuses == {"PENDING", "ACCEPTED", "DRIVER_ASSIGNED", "FINISHED", "COMPLETED", "CANCELLED"}

\* Places the geocoder returns, and the route the router returns for each (metres, seconds).
Places == {"D1", "D2"}
RouteMetres(p) == IF p = "D1" THEN 12340 ELSE 4996
RouteSeconds(p) == IF p = "D1" THEN 601 ELSE 299

\* Queries typed in the search box.
Queries == {"", "C", "Co", "Col"}
QueryLen(q) == IF q = "" THEN 0 ELSE IF q = "C" THEN 1 ELSE IF q = "Co" THEN 2 ELSE 3

VARIABLES
  screen,              \* which screen this run shows: "rider" or "driver"
  mounted,             \* the screen's component is mounted
  \* ---- BookingRoutes state (useState / useRef)
  currentPos, destination, routeInfo, searchQuery, suggestions, isSubmitting, startName,
  bookingStatus, pollStatus, pollIntervalRef, abortControllerRef,
  \* ---- BookingRoutes environment
  geoPending,          \* getCurrentPosition has not called back yet
  reverseReqs,         \* reverse-geocoding requests for the pickup in flight (positions)
  clock,               \* timed runs: the backend's latency, and the seconds since the
                       \* current status request was issued and since the last tick
  hasToken,            \* localStorage holds a token
  debounce,            \* the pending 500 ms search timers, each named by its query
  searchReqs,          \* forward-geocoding requests in flight (queries)
  routeReqs,           \* routing requests in flight (destinations)
  timers,              \* live setInterval timers
  statusReqs,          \* booking-status requests in flight, in issue order
  postReq,             \* the create-booking request in flight (a set of at most one)
  bookingData,         \* response.data of the create-booking response saveRoute is
                       \* handling (a sequence of at most one)
  nextBooking,         \* the identifier the backend gives the next booking
  modal,               \* the alert() shown, with the handler's continuation
  micro,               \* rejected awaits whose catch block has not run yet
  \* ---- DriverDashboard state (its pollStatus, pollIntervalRef and abortControllerRef
  \*      are the variables of those names above: one screen runs at a time)
  loading, status, isAvailable, rides, updating, pollInterval,
  \* ---- DriverDashboard environment
  profileReq,          \* the driver-profile request is in flight
  patchReqs,           \* the availability patch in flight (a set of at most one)
  ridesReqs,           \* pending-rides requests in flight, in issue order
  actionReqs,          \* accept / decline requests in flight
  \* ---- history (not read by the program)
  foundBookings,       \* bookings a response reported ACCEPTED / DRIVER_ASSIGNED for
                       \* (the /status endpoint) or ACCEPTED (the fallback endpoint)
  issuedAfterFound,    \* a request was issued for a booking already in foundBookings
  applied,             \* the status response applied last: endpoint, status, booking
                       \* (flip distinguishes two equal responses in a row)
  appliedStale,        \* a response was applied after a later-issued one
  fetched,             \* the pending-rides response applied last: its list
                       \* (flip distinguishes two equal responses in a row)
  acked,               \* response.data.driver of the availability patch acknowledged last
  removed              \* rides accepted or declined successfully while the pending-rides
                       \* requests now in flight were in flight

riderVars == <<currentPos, destination, routeInfo, searchQuery, suggestions, isSubmitting,
               bookingStatus, pollStatus, pollIntervalRef, abortControllerRef, geoPending,
               hasToken, debounce, searchReqs, routeReqs, timers, statusReqs, postReq,
               bookingData, nextBooking, modal, micro, foundBookings, issuedAfterFound,
               applied, appliedStale, startName, reverseReqs, clock>>

driverVars == <<loading, status, isAvailable, rides, updating, pollInterval, profileReq,
                patchReqs, ridesReqs, actionReqs, fetched, acked, removed>>

\* The rider screen's own variables (all but those both screens have).
riderOnlyVars == <<currentPos, destination, routeInfo, searchQuery, suggestions, isSubmitting,
                   bookingStatus, geoPending, hasToken, debounce, searchReqs, routeReqs,
                   statusReqs, postReq, bookingData, nextBooking, foundBookings,
                   issuedAfterFound, applied, startName, reverseReqs, clock>>

vars == <<screen, mounted, riderVars, driverVars>>

\* ------------------------------------------------------------ pure helpers
NoModal == [kind |-> "none", booking |-> 0]
NoRoute == [distance |-> 0, duration |-> 0]
NothingApplied == [via |-> "none", status |-> NULL, booking |-> 0, flip |-> FALSE]
NothingFetched == [data |-> <<>>, flip |-> FALSE]
NothingAcked == [isAvailable |-> FALSE, status |-> "OFFLINE"]
\* Runs that do not track time keep this clock: any interleaving of timers and responses.
NoClock == [latency |-> 0, sinceIssue |-> 0, sinceTick |-> 0]

\* distanceKm.toFixed(2) then parseFloat: kilometres in hundredths, rounded to nearest.
ToFixed2(metres) == (metres + 5) \div 10
\* (routeInfo.distance * 50).toFixed(2) then parseFloat (lines 314, 321, 508): the fare in
\* hundredths of a rupee. The product of a distance in hundredths of a kilometre and the
\* rate is taken in ten-thousandths of a rupee and rounded to the nearest hundredth.
FareWholeKm(distance) == (distance \div 100) * FareRate * 100
Fare(distance) == (distance * FareRate * 100 + 50) \div 100
\* Math.ceil(seconds / 60)
CeilMinutes(seconds) == (seconds + 59) \div 60

RemoveAt(s, i) == SubSeq(s, 1, i - 1) \o SubSeq(s, i + 1, Len(s))
MarkStale(s, i) == [j \in 1..Len(s) |-> IF j < i THEN [s[j] EXCEPT !.stale = TRUE] ELSE s[j]]

\* clearInterval(handle)
ClearInterval(ts, handle) == {t \in ts : t.id # handle}

\* status === "DRIVER_ASSIGNED" || status === "ACCEPTED"
StatusIsFoundOnlyAssigned(s) == s = "DRIVER_ASSIGNED"
StatusIsFound(s) == s \in {"DRIVER_ASSIGNED", "ACCEPTED"}

\* status === "FINISHED" || status === "COMPLETED" || status === "CANCELLED"
StatusIsTerminal(s) == s \in {"FINISHED", "COMPLETED", "CANCELLED"}

\* booking.status === "ACCEPTED" (fallback branch)
FallbackIsFound(s) == s = "ACCEPTED"

\* response.data.bookingId || response.data._id || response.data.id  (0: field absent)
BookingResponses(id) == {[bookingId |-> id, _id |-> 0, id |-> 0],
                         [bookingId |-> 0, _id |-> id, id |-> 0],
                         [bookingId |-> 0, _id |-> 0, id |-> id],
                         [bookingId |-> 0, _id |-> 0, id |-> 0]}
ExtractBookingIdFirstFieldOnly(data) == data.bookingId
ExtractBookingId(data) ==
  IF data.bookingId # 0 THEN data.bookingId ELSE IF data._id # 0 THEN data._id ELSE data.id

\* if (!bookingId)
BookingIdMissingNever(id) == FALSE
BookingIdMissing(id) == id = 0

\* saveRoute's early returns: the alert raised, or "none" when the submission goes on.
SaveRouteGuardNoTokenCheck(pos, dest, dist, tok) ==
  IF pos = NULL \/ dest = NULL THEN "selectBoth"
  ELSE IF dist = 0 THEN "waitRoute"
  ELSE "none"
SaveRouteGuard(pos, dest, dist, tok) ==
  IF pos = NULL \/ dest = NULL THEN "selectBoth"
  ELSE IF dist = 0 THEN "waitRoute"
  ELSE IF ~tok THEN "loginFirst"
  ELSE "none"

\* abortControllerRef.current.abort(): the requests whose signal it holds are rejected.
IsCurrent(r) == r.current
NotCurrent(r) == ~r.current
Cancelled(reqs, ctrl) == IF ctrl THEN SelectSeq(reqs, IsCurrent) ELSE <<>>
Surviving(reqs, ctrl) == IF ctrl THEN SelectSeq(reqs, NotCurrent) ELSE reqs

\* poll's catch block for a cancelled request (lines 246-251): the poll state it sets and
\* what it leaves of the interval timer.
CancelOutcomeStopsPolling(ts, ref) ==
  [pollStatus |-> "timeout", timers |-> ClearInterval(ts, ref), ref |-> NoTimer]
CancelOutcome(ts, ref) == [pollStatus |-> "timeout", timers |-> ts, ref |-> ref]

\* pollBookingStatus, lines 190-193: the timers left after clearing the previous one.
TimersBeforeStartKeepOld(ts, ref) == ts
TimersBeforeStart(ts, ref) == IF ref # NoTimer THEN ClearInterval(ts, ref) ELSE ts

\* ------------------------------------------------------------------ Init
\* What both components initialise alike (useState("idle"), useRef(null)), and the
\* event loop at rest.
SharedInit ==
  /\ pollStatus = "idle" /\ pollIntervalRef = NoTimer /\ abortControllerRef = FALSE
  /\ timers = {} /\ modal = NoModal /\ micro = <<>> /\ appliedStale = FALSE

\* BookingRoutes, lines 16-29, as the first render leaves it.
RiderInit ==
  /\ currentPos = NULL /\ destination = NULL /\ routeInfo = NoRoute
  /\ searchQuery = "" /\ suggestions = <<>> /\ isSubmitting = FALSE
  /\ bookingStatus = NULL
  /\ geoPending \in BOOLEAN     \* FALSE: navigator.geolocation is absent (line 32)
  /\ hasToken \in BOOLEAN
  /\ startName = "Detecting your location..." /\ reverseReqs = {}
  /\ debounce = {} /\ searchReqs = {} /\ routeReqs = {}
  /\ statusReqs = <<>> /\ postReq = {} /\ bookingData = <<>>
  /\ nextBooking = 1 /\ foundBookings = {} /\ issuedAfterFound = FALSE
  /\ applied = NothingApplied

\* DriverDashboard, lines 10-20, as the first render leaves it: the profile request of
\* the mount effect (lines 181-183) is in flight.
DriverInit ==
  /\ loading = TRUE /\ status = "OFFLINE" /\ isAvailable = FALSE /\ rides = <<>>
  /\ updating = FALSE /\ pollInterval = DefaultInterval
  /\ profileReq = (screen = "driver") /\ patchReqs = {} /\ ridesReqs = <<>>
  /\ actionReqs = {} /\ fetched = NothingFetched /\ acked = NothingAcked /\ removed = {}


\* A task of the rider screen can start: no alert is blocking, no microtask is pending.
RiderIdle == screen = "rider" /\ modal = NoModal /\ micro = <<>>

\* ------------------------------------------------- rider: location, search, route
\* Route useEffect (lines 81-130): runs when currentPos or destination changed.
RouteEffect(pos, dest) == IF pos # NULL /\ dest # NULL THEN routeReqs \cup {dest} ELSE routeReqs

\* The search effect's cleanup (line 152): clearTimeout of the timer the run for the
\* previous query prev created.
ClearTimeoutKept(pending, prev) == pending
ClearTimeout(pending, prev) == pending \ {prev}

\* Search useEffect (lines 132-153) for query q: <<suggestions, debounce timers>> after the
\* previous run's cleanup and this run.
SearchEffect(q, sugg, pending) ==
  IF QueryLen(q) < 2 THEN <<(<<>>), pending>> ELSE <<sugg, pending \cup {q}>>

\* getLocationName (lines 54-67): the name the reverse geocoder gives position p.
LocationName(p) == IF p = "P" THEN "Kandy" ELSE "Matale"

\* Reverse-geocode useEffect (lines 69-73): runs when currentPos changed to pos.
ReverseEffect(pos) == IF pos # NULL THEN reverseReqs \cup {pos} ELSE reverseReqs

GeoSuccess ==
  /\ RiderIdle /\ geoPending
  /\ geoPending' = FALSE /\ currentPos' = "P"
  /\ reverseReqs' = ReverseEffect("P") /\ UNCHANGED startName
  /\ routeReqs' = RouteEffect("P", destination)
  /\ UNCHANGED <<screen, mounted, driverVars, destination, routeInfo, searchQuery, suggestions, isSubmitting,
                 bookingStatus, pollStatus, pollIntervalRef, abortControllerRef, hasToken,
                 debounce, searchReqs, timers, statusReqs, postReq, nextBooking, modal, micro,
                 foundBookings, appliedStale, issuedAfterFound, applied, bookingData, clock>>

GeoError ==
  /\ RiderIdle /\ geoPending
  /\ geoPending' = FALSE /\ currentPos' = "Center"
  /\ startName' = "Colombo" /\ reverseReqs' = ReverseEffect("Center")
  /\ routeReqs' = RouteEffect("Center", destination)
  /\ UNCHANGED <<screen, mounted, driverVars, destination, routeInfo, searchQuery, suggestions, isSubmitting,
                 bookingStatus, pollStatus, pollIntervalRef, abortControllerRef, hasToken,
                 debounce, searchReqs, timers, statusReqs, postReq, nextBooking, modal, micro,
                 foundBookings, appliedStale, issuedAfterFound, applied, bookingData, clock>>

\* getLocationName(currentPos).then(setStartName) (line 71): the reverse geocoder answers
\* for position p, or the request fails (ok = FALSE, line 65).
ReverseResponse(p, ok) ==
  /\ RiderIdle /\ p \in reverseReqs
  /\ reverseReqs' = reverseReqs \ {p}
  /\ startName' = IF ok THEN LocationName(p) ELSE "Unknown Location"
  /\ UNCHANGED <<screen, mounted, driverVars, currentPos, destination, routeInfo, searchQuery,
                 suggestions, isSubmitting, bookingStatus, pollStatus, pollIntervalRef,
                 abortControllerRef, geoPending, hasToken, debounce, searchReqs, routeReqs,
                 timers, statusReqs, postReq, nextBooking, modal, micro, foundBookings,
                 appliedStale, issuedAfterFound, applied, bookingData, clock>>

\* onChange of the search box.
TypeQuery(q) ==
  /\ RiderIdle /\ mounted /\ q # searchQuery
  /\ searchQuery' = q
  /\ suggestions' = SearchEffect(q, suggestions, ClearTimeout(debounce, searchQuery))[1]
  /\ debounce' = SearchEffect(q, suggestions, ClearTimeout(debounce, searchQuery))[2]
  /\ UNCHANGED <<screen, mounted, driverVars, currentPos, destination, routeInfo, isSubmitting, bookingStatus,
                 pollStatus, pollIntervalRef, abortControllerRef, geoPending, hasToken,
                 searchReqs, routeReqs, timers, statusReqs, postReq, nextBooking, modal, micro,
                 foundBookings, appliedStale, issuedAfterFound, applied, bookingData, startName, reverseReqs, clock>>

\* The 500 ms timer fires: the forward-geocoding request is issued.
DebounceFire(t) ==
  /\ RiderIdle /\ t \in debounce
  /\ searchReqs' = searchReqs \cup {t}
  /\ debounce' = debounce \ {t}
  /\ UNCHANGED <<screen, mounted, driverVars, currentPos, destination, routeInfo, searchQuery, suggestions,
                 isSubmitting, bookingStatus, pollStatus, pollIntervalRef, abortControllerRef,
                 geoPending, hasToken, routeReqs, timers, statusReqs, postReq, nextBooking,
                 modal, micro, foundBookings, appliedStale, issuedAfterFound, applied, bookingData, startName, reverseReqs, clock>>

\* The geocoder answers (data), or the request fails (ok = FALSE: logged only).
SearchResponse(q, ok, data) ==
  /\ RiderIdle /\ q \in searchReqs
  /\ searchReqs' = searchReqs \ {q}
  /\ suggestions' = IF ok THEN data ELSE suggestions
  /\ UNCHANGED <<screen, mounted, driverVars, currentPos, destination, routeInfo, searchQuery, isSubmitting,
                 bookingStatus, pollStatus, pollIntervalRef, abortControllerRef, geoPending,
                 hasToken, debounce, routeReqs, timers, statusReqs, postReq, nextBooking,
                 modal, micro, foundBookings, appliedStale, issuedAfterFound, applied, bookingData, startName, reverseReqs, clock>>

selectPlace(p) ==
  /\ RiderIdle /\ mounted /\ \E i \in 1..Len(suggestions) : suggestions[i] = p
  /\ destination' = p
  /\ searchQuery' = ""
  /\ suggestions' = <<>>
  /\ debounce' = ClearTimeout(debounce, searchQuery)
  /\ routeReqs' = RouteEffect(currentPos, p)
  /\ UNCHANGED <<screen, mounted, driverVars, currentPos, routeInfo, isSubmitting, bookingStatus, pollStatus,
                 pollIntervalRef, abortControllerRef, geoPending, hasToken, searchReqs, timers,
                 statusReqs, postReq, nextBooking, modal, micro, foundBookings, appliedStale, issuedAfterFound, applied, bookingData, startName, reverseReqs, clock>>

\* calculateRoute's continuation: the router answers with a route, or with none / an error.
RouteResponse(d, hasRoute) ==
  /\ RiderIdle /\ d \in routeReqs
  /\ routeReqs' = routeReqs \ {d}
  /\ routeInfo' = IF hasRoute
                  THEN [distance |-> ToFixed2(RouteMetres(d)), duration |-> CeilMinutes(RouteSeconds(d))]
                  ELSE routeInfo
  /\ UNCHANGED <<screen, mounted, driverVars, currentPos, destination, searchQuery, suggestions, isSubmitting,
                 bookingStatus, pollStatus, pollIntervalRef, abortControllerRef, geoPending,
                 hasToken, debounce, searchReqs, timers, statusReqs, postReq, nextBooking,
                 modal, micro, foundBookings, appliedStale, issuedAfterFound, applied, bookingData, startName, reverseReqs, clock>>

\* ------------------------------------------------------------ rider: handleRefresh
\* The state handleRefresh writes (lines 166-181); the search effect's cleanup clears the
\* debounce timer when the query changes to "".
RefreshEffectsKeepRoute ==
  /\ destination' = NULL /\ searchQuery' = "" /\ suggestions' = <<>> /\ debounce' = ClearTimeout(debounce, searchQuery)
  /\ UNCHANGED routeInfo
  /\ bookingStatus' = NULL /\ pollStatus' = "idle"
  /\ timers' = IF pollIntervalRef # NoTimer THEN ClearInterval(timers, pollIntervalRef) ELSE timers
  /\ pollIntervalRef' = NoTimer
  /\ statusReqs' = Surviving(statusReqs, abortControllerRef)
  /\ micro' = micro \o Cancelled(statusReqs, abortControllerRef)
RefreshEffects ==
  /\ destination' = NULL /\ searchQuery' = "" /\ suggestions' = <<>> /\ debounce' = ClearTimeout(debounce, searchQuery)
  /\ routeInfo' = NoRoute
  /\ bookingStatus' = NULL /\ pollStatus' = "idle"
  /\ timers' = IF pollIntervalRef # NoTimer THEN ClearInterval(timers, pollIntervalRef) ELSE timers
  /\ pollIntervalRef' = NoTimer
  /\ statusReqs' = Surviving(statusReqs, abortControllerRef)
  /\ micro' = micro \o Cancelled(statusReqs, abortControllerRef)

handleRefresh ==
  /\ RiderIdle /\ mounted
  /\ RefreshEffects
  /\ UNCHANGED <<screen, mounted, driverVars, currentPos, isSubmitting, abortControllerRef, geoPending, hasToken,
                 searchReqs, routeReqs, postReq, nextBooking, modal, foundBookings, appliedStale, issuedAfterFound, applied, bookingData, startName, reverseReqs, clock>>

\* The user navigates away from the rider screen: the component unmounts and React runs
\* the effect cleanups, of which BookingRoutes has one (line 152, clearTimeout).
Unmount ==
  /\ RiderIdle /\ mounted
  /\ mounted' = FALSE
  /\ debounce' = ClearTimeout(debounce, searchQuery)
  /\ UNCHANGED <<screen, driverVars, currentPos, destination, routeInfo, searchQuery, suggestions,
                 isSubmitting, bookingStatus, pollStatus, pollIntervalRef, abortControllerRef,
                 geoPending, hasToken, searchReqs, routeReqs, timers, statusReqs, postReq,
                 nextBooking, modal, micro, foundBookings, appliedStale, issuedAfterFound,
                 applied, bookingData, startName, reverseReqs, clock>>

\* ------------------------------------------------------------ rider: status poller
\* `cause` is the HTTP status of the error that made poll() issue the request (0: none).
NewStatusReq(b) ==
  [booking |-> b, kind |-> "status", current |-> TRUE, stale |-> FALSE, cause |-> 0]
NewFallbackReq(b, code) ==
  [booking |-> b, kind |-> "fallback", current |-> FALSE, stale |-> FALSE, cause |-> code]
\* HTTP error statuses a request can fail with, besides cancellation.
HttpErrors == {404, 500}
\* err.response?.status === 404
IsNotFoundAnyError(code) == TRUE
IsNotFound(code) == code = 404
Uncurrent(reqs) == [j \in 1..Len(reqs) |-> [reqs[j] EXCEPT !.current = FALSE]]

\* poll(), synchronous part (lines 198-221): abort the previous request, issue a new one.
PollCanIssue == Len(Surviving(statusReqs, abortControllerRef)) < MaxInFlight
\* setInterval(poll, 3000) (line 291) and setTimeout(abort, 8000) (line 205), in seconds.
TickSeconds == RiderPollPeriod \div 1000
TimeoutSeconds == 8
\* Latencies of the backend below the request timeout, in seconds.
Latencies == 1..(TimeoutSeconds - 1)
Timed == clock.latency > 0
\* The clock once poll() has issued a request (and the interval has been (re)started).
Reissued(c) == IF c.latency = 0 THEN c ELSE [c EXCEPT !.sinceIssue = 0, !.sinceTick = 0]
\* In a timed run the interval timer fires when its period has elapsed, and the backend
\* answers the request that holds the signal when its latency has elapsed.
TickDue == ~Timed \/ clock.sinceTick = TickSeconds
ResponseDue(i) == ~Timed \/ (statusReqs[i].current /\ clock.sinceIssue = clock.latency)

PollIssue(b) ==
  /\ clock' = Reissued(clock)
  /\ statusReqs' = Append(Uncurrent(Surviving(statusReqs, abortControllerRef)), NewStatusReq(b))
  /\ micro' = micro \o Cancelled(statusReqs, abortControllerRef)
  /\ abortControllerRef' = TRUE
  /\ pollStatus' = "polling"
  /\ issuedAfterFound' = (issuedAfterFound \/ b \in foundBookings)

\* A tick of the interval timer t.
Tick(t) ==
  /\ RiderIdle /\ t \in timers /\ PollCanIssue /\ TickDue
  /\ PollIssue(t.id)
  /\ UNCHANGED <<screen, mounted, driverVars, currentPos, destination, routeInfo, searchQuery, suggestions,
                 isSubmitting, bookingStatus, pollIntervalRef, geoPending, hasToken, debounce,
                 searchReqs, routeReqs, timers, postReq, nextBooking, modal, foundBookings,
                 appliedStale, applied, bookingData, startName, reverseReqs>>

\* One second passes in a timed run while the poller's timer is live: not past the tick
\* that is due, nor past the moment the backend answers.
Advance ==
  /\ Timed /\ RiderIdle /\ timers # {}
  /\ clock.sinceTick < TickSeconds
  /\ (\E j \in 1..Len(statusReqs) : statusReqs[j].current) => clock.sinceIssue < clock.latency
  /\ clock' = [clock EXCEPT !.sinceIssue = @ + 1, !.sinceTick = @ + 1]
  /\ UNCHANGED <<screen, mounted, driverVars, currentPos, destination, routeInfo, searchQuery,
                 suggestions, isSubmitting, bookingStatus, pollStatus, pollIntervalRef,
                 abortControllerRef, geoPending, hasToken, debounce, searchReqs, routeReqs,
                 timers, statusReqs, postReq, nextBooking, modal, micro, foundBookings,
                 appliedStale, issuedAfterFound, applied, bookingData, startName, reverseReqs>>

\* The 8-second timer of the pending status request i fires (line 205).
RequestTimeout(i) ==
  /\ RiderIdle /\ i \in 1..Len(statusReqs) /\ statusReqs[i].kind = "status"
  /\ Cancelled(statusReqs, abortControllerRef) # <<>>
  /\ statusReqs' = Surviving(statusReqs, abortControllerRef)
  /\ micro' = micro \o Cancelled(statusReqs, abortControllerRef)
  /\ UNCHANGED <<screen, mounted, driverVars, currentPos, destination, routeInfo, searchQuery, suggestions,
                 isSubmitting, bookingStatus, pollStatus, pollIntervalRef, abortControllerRef,
                 geoPending, hasToken, debounce, searchReqs, routeReqs, timers, postReq,
                 nextBooking, modal, foundBookings, appliedStale, issuedAfterFound, applied, bookingData, startName, reverseReqs, clock>>

\* catch block of an aborted request (lines 244-251), run as a microtask.
CatchCancel ==
  /\ screen = "rider" /\ micro # <<>>
  /\ micro' = Tail(micro)
  /\ pollStatus' = CancelOutcome(timers, pollIntervalRef).pollStatus
  /\ timers' = CancelOutcome(timers, pollIntervalRef).timers
  /\ pollIntervalRef' = CancelOutcome(timers, pollIntervalRef).ref
  /\ UNCHANGED <<screen, mounted, driverVars, currentPos, destination, routeInfo, searchQuery, suggestions,
                 isSubmitting, bookingStatus, abortControllerRef, geoPending,
                 hasToken, debounce, searchReqs, routeReqs, statusReqs, postReq,
                 nextBooking, modal, foundBookings, appliedStale, issuedAfterFound, applied, bookingData, startName, reverseReqs, clock>>

\* The /status endpoint answers request i with status s (lines 223-242).
StatusResponse(i, s) ==
  /\ RiderIdle /\ i \in 1..Len(statusReqs) /\ statusReqs[i].kind = "status"
  /\ ResponseDue(i)
  /\ statusReqs' = RemoveAt(MarkStale(statusReqs, i), i)
  /\ appliedStale' = (appliedStale \/ statusReqs[i].stale)
  /\ applied' = [via |-> "status", status |-> s, booking |-> statusReqs[i].booking,
                  flip |-> ~applied.flip]
  /\ foundBookings' = IF s \in {"DRIVER_ASSIGNED", "ACCEPTED"}
                      THEN foundBookings \cup {statusReqs[i].booking} ELSE foundBookings
  /\ IF StatusIsFound(s)
     THEN /\ bookingStatus' = s /\ pollStatus' = "found"
          /\ modal' = [kind |-> "found", booking |-> statusReqs[i].booking]
          /\ UNCHANGED <<timers, pollIntervalRef>>
     ELSE IF StatusIsTerminal(s)
     THEN /\ bookingStatus' = s /\ pollStatus' = "idle"
          /\ timers' = ClearInterval(timers, pollIntervalRef)
          /\ pollIntervalRef' = NoTimer
          /\ UNCHANGED modal
     ELSE /\ bookingStatus' = s
          /\ UNCHANGED <<pollStatus, timers, pollIntervalRef, modal>>
  /\ UNCHANGED <<screen, mounted, driverVars, currentPos, destination, routeInfo, searchQuery, suggestions,
                 isSubmitting, abortControllerRef, geoPending, hasToken, debounce, searchReqs,
                 routeReqs, postReq, nextBooking, micro, issuedAfterFound, bookingData, startName, reverseReqs, clock>>

\* The /status endpoint answers request i with error `code`, a 404: the fallback request
\* is issued (lines 253-263), without an abort signal.
StatusNotFound(i, code) ==
  /\ RiderIdle /\ i \in 1..Len(statusReqs) /\ statusReqs[i].kind = "status"
  /\ IsNotFound(code)
  /\ statusReqs' = Append(RemoveAt(statusReqs, i), NewFallbackReq(statusReqs[i].booking, code))
  /\ issuedAfterFound' = (issuedAfterFound \/ statusReqs[i].booking \in foundBookings)
  /\ UNCHANGED <<screen, mounted, driverVars, currentPos, destination, routeInfo, searchQuery, suggestions,
                 isSubmitting, bookingStatus, pollStatus, pollIntervalRef, abortControllerRef,
                 geoPending, hasToken, debounce, searchReqs, routeReqs, timers, postReq,
                 nextBooking, modal, micro, foundBookings, appliedStale, applied, bookingData, startName, reverseReqs, clock>>

\* Request i fails with error `code`: a /status request with one that is no 404
\* (lines 280-283), a fallback request with any (lines 276-279).
StatusError(i, code) ==
  /\ RiderIdle /\ i \in 1..Len(statusReqs)
  /\ statusReqs[i].kind = "status" => ~IsNotFound(code)
  /\ statusReqs' = RemoveAt(statusReqs, i)
  /\ appliedStale' = (appliedStale \/ statusReqs[i].stale)
  /\ pollStatus' = "idle"
  /\ UNCHANGED <<screen, mounted, driverVars, currentPos, destination, routeInfo, searchQuery, suggestions,
                 isSubmitting, bookingStatus, pollIntervalRef, abortControllerRef, geoPending,
                 hasToken, debounce, searchReqs, routeReqs, timers, postReq, nextBooking,
                 modal, micro, foundBookings, issuedAfterFound, applied, bookingData, startName, reverseReqs, clock>>

\* The generic booking endpoint answers fallback request i with status s (lines 264-275).
FallbackResponse(i, s) ==
  /\ RiderIdle /\ i \in 1..Len(statusReqs) /\ statusReqs[i].kind = "fallback"
  /\ statusReqs' = RemoveAt(MarkStale(statusReqs, i), i)
  /\ appliedStale' = (appliedStale \/ statusReqs[i].stale)
  /\ applied' = [via |-> "fallback", status |-> s, booking |-> statusReqs[i].booking,
                  flip |-> ~applied.flip]
  /\ foundBookings' = IF FallbackIsFound(s)
                      THEN foundBookings \cup {statusReqs[i].booking} ELSE foundBookings
  /\ bookingStatus' = s
  /\ IF FallbackIsFound(s)
     THEN /\ pollStatus' = "found"
          /\ modal' = [kind |-> "found", booking |-> statusReqs[i].booking]
     ELSE /\ pollStatus' = "idle"
          /\ UNCHANGED modal
  /\ UNCHANGED <<screen, mounted, driverVars, currentPos, destination, routeInfo, searchQuery, suggestions,
                 isSubmitting, pollIntervalRef, abortControllerRef, geoPending, hasToken,
                 debounce, searchReqs, routeReqs, timers, postReq, nextBooking, micro, issuedAfterFound, bookingData, startName, reverseReqs, clock>>

\* ------------------------------------------------------------ rider: saveRoute
\* Click on "Confirm Booking".  The button is disabled while isSubmitting (line 545);
\* the handler checks the other preconditions itself (lines 295-309).
saveRoute ==
  /\ RiderIdle /\ mounted /\ ~isSubmitting
  /\ LET a == SaveRouteGuard(currentPos, destination, routeInfo.distance, hasToken) IN
     IF a # "none"
     THEN /\ modal' = [kind |-> a, booking |-> 0]
          /\ UNCHANGED <<isSubmitting, postReq>>
     ELSE /\ isSubmitting' = TRUE
          /\ postReq' = {[distance |-> routeInfo.distance, estimatedTime |-> routeInfo.duration,
                          estimatedFare |-> Fare(routeInfo.distance),
                          pickupCoords |-> currentPos, dropoffCoords |-> destination]}
          /\ UNCHANGED modal
  /\ UNCHANGED <<screen, mounted, driverVars, currentPos, destination, routeInfo, searchQuery, suggestions,
                 bookingStatus, pollStatus, pollIntervalRef, abortControllerRef, geoPending,
                 hasToken, debounce, searchReqs, routeReqs, timers, statusReqs, nextBooking,
                 micro, foundBookings, appliedStale, issuedAfterFound, applied, bookingData, startName, reverseReqs, clock>>

\* The create-booking request succeeds with body `data` (lines 347-371).
BookingResponse(data) ==
  /\ RiderIdle /\ postReq # {} /\ nextBooking <= MaxBookings
  /\ postReq' = {}
  /\ bookingData' = <<data>>
  /\ IF BookingIdMissing(ExtractBookingId(data))
     THEN /\ modal' = [kind |-> "noBookingId", booking |-> 0]
          /\ UNCHANGED <<bookingStatus, nextBooking>>
     ELSE /\ bookingStatus' = "PENDING"
          /\ modal' = [kind |-> "confirmed", booking |-> ExtractBookingId(data)]
          /\ nextBooking' = nextBooking + 1
  /\ UNCHANGED <<screen, mounted, driverVars, currentPos, destination, routeInfo, searchQuery, suggestions,
                 isSubmitting, pollStatus, pollIntervalRef, abortControllerRef, geoPending,
                 hasToken, debounce, searchReqs, routeReqs, timers, statusReqs, micro,
                 foundBookings, appliedStale, issuedAfterFound, applied, startName, reverseReqs, clock>>

\* The create-booking request fails or is aborted by its 8-second timer (lines 376-386).
BookingError ==
  /\ RiderIdle /\ postReq # {}
  /\ postReq' = {}
  /\ modal' = [kind |-> "bookingFailed", booking |-> 0]
  /\ UNCHANGED <<screen, mounted, driverVars, currentPos, destination, routeInfo, searchQuery, suggestions,
                 isSubmitting, bookingStatus, pollStatus, pollIntervalRef, abortControllerRef,
                 geoPending, hasToken, debounce, searchReqs, routeReqs, timers, statusReqs,
                 nextBooking, micro, foundBookings, appliedStale, issuedAfterFound, applied, bookingData, startName, reverseReqs, clock>>

\* pollBookingStatus(b) (lines 189-292), then saveRoute's finally.
StartPolling(b) ==
  /\ PollCanIssue
  /\ PollIssue(b)
  /\ timers' = TimersBeforeStart(timers, pollIntervalRef)
               \cup {[id |-> b, period |-> RiderPollPeriod]}
  /\ pollIntervalRef' = b
  /\ isSubmitting' = FALSE
  /\ bookingData' = <<>>
  /\ UNCHANGED <<currentPos, destination, routeInfo, searchQuery, suggestions, bookingStatus,
                 geoPending, hasToken, debounce, searchReqs, routeReqs, postReq, nextBooking,
                 foundBookings, appliedStale, applied, startName, reverseReqs>>

\* An alert of saveRoute's early returns is dismissed: the handler returns.
DismissPrecondition ==
  /\ screen = "rider" /\ modal.kind \in {"selectBoth", "waitRoute", "loginFirst"}
  /\ modal' = NoModal
  /\ UNCHANGED <<screen, mounted, driverVars, currentPos, destination, routeInfo, searchQuery, suggestions,
                 isSubmitting, bookingStatus, pollStatus, pollIntervalRef, abortControllerRef,
                 geoPending, hasToken, debounce, searchReqs, routeReqs, timers, statusReqs,
                 postReq, nextBooking, micro, foundBookings, appliedStale, issuedAfterFound, applied, bookingData, startName, reverseReqs, clock>>

\* The "no booking ID" or "booking failed" alert is dismissed: saveRoute's finally runs.
DismissFailure ==
  /\ screen = "rider" /\ modal.kind \in {"noBookingId", "bookingFailed"}
  /\ modal' = NoModal
  /\ isSubmitting' = FALSE
  /\ bookingData' = <<>>
  /\ UNCHANGED <<screen, mounted, driverVars, currentPos, destination, routeInfo, searchQuery, suggestions,
                 bookingStatus, pollStatus, pollIntervalRef, abortControllerRef, geoPending,
                 hasToken, debounce, searchReqs, routeReqs, timers, statusReqs, postReq,
                 nextBooking, micro, foundBookings, appliedStale, issuedAfterFound, applied, startName, reverseReqs, clock>>

\* The "Booking Confirmed" alert is dismissed: polling starts (line 375).
DismissConfirmed ==
  /\ screen = "rider" /\ modal.kind = "confirmed"
  /\ modal' = NoModal
  /\ StartPolling(modal.booking)
  /\ UNCHANGED <<screen, mounted, driverVars>>

\* The "Driver found" alert is dismissed: clearInterval and handleRefresh
\* (lines 235-237 and 272-274).
DismissFound ==
  /\ screen = "rider" /\ modal.kind = "found"
  /\ modal' = NoModal
  /\ RefreshEffects
  /\ UNCHANGED <<screen, mounted, driverVars, currentPos, isSubmitting, abortControllerRef, geoPending, hasToken,
                 searchReqs, routeReqs, postReq, nextBooking, foundBookings, appliedStale, issuedAfterFound, applied, bookingData, startName, reverseReqs, clock>>

\* ------------------------------------------------------------ driver: poller
RideLists == {<<>>, <<"r1">>, <<"r1", "r2">>}

DriverIdle == screen = "driver" /\ modal = NoModal /\ micro = <<>>
\* A continuation of the driver screen whose state updates take effect: React drops the
\* updates of an unmounted component and runs no effect for it.
DriverLive == DriverIdle /\ mounted

NewRidesReq(interval, viaToggle) ==
  [current |-> TRUE, stale |-> FALSE, interval |-> interval, toggle |-> viaToggle]

\* The poller's resources, as a record the steps of a handler transform in turn.
Polling == [timers |-> timers, ref |-> pollIntervalRef, reqs |-> ridesReqs,
            ctrl |-> abortControllerRef, micro |-> micro, pollStatus |-> pollStatus,
            issued |-> FALSE]

\* setInterval returns a handle no timer set before has: one the live timers lack.
FreshTimer(ts) == CHOOSE n \in 1..(Cardinality(ts) + 1) : \A t \in ts : t.id # n

\* fetchAvailableRides with isAvailable true in its closure, synchronous part (lines 50-66):
\* abort the previous request, issue a new one.
FetchIssue(st, interval, viaToggle) ==
  [st EXCEPT !.reqs = Append(Uncurrent(Surviving(st.reqs, st.ctrl)), NewRidesReq(interval, viaToggle)),
             !.micro = st.micro \o Cancelled(st.reqs, st.ctrl),
             !.ctrl = TRUE,
             !.pollStatus = "polling",
             !.issued = TRUE]

\* The timers left once the polling effect's cleanup (lines 208-213) and its
\* "clear existing interval" (lines 196-198) have run.
EffectClearedKeepOld(ts, ref) == ts
EffectCleared(ts, ref) == IF ref # NoTimer THEN ClearInterval(ts, ref) ELSE ts

\* The polling useEffect (lines 186-214), run because isAvailable or pollInterval changed.
PollingEffect(avail, interval, st) ==
  LET cleared == EffectCleared(st.timers, st.ref) IN
  IF ~avail
  THEN [st EXCEPT !.timers = cleared, !.ref = NoTimer]
  ELSE [FetchIssue(st, interval, FALSE)
          EXCEPT !.timers = cleared \cup {[id |-> FreshTimer(st.timers), period |-> interval]},
                 !.ref = FreshTimer(st.timers)]

\* React commits the handler's state updates; the effect runs when a dependency changed.
AfterCommit(avail, interval, st) ==
  IF avail # isAvailable \/ interval # pollInterval THEN PollingEffect(avail, interval, st) ELSE st

ApplyPolling(st) ==
  /\ Len(st.reqs) <= MaxInFlight
  /\ timers' = st.timers /\ pollIntervalRef' = st.ref /\ ridesReqs' = st.reqs
  /\ abortControllerRef' = st.ctrl /\ micro' = st.micro /\ pollStatus' = st.pollStatus
  /\ removed' = IF st.issued \/ st.reqs = <<>> THEN {} ELSE removed

\* The interval fetchAvailableRides sets after a successful response (lines 70-85):
\* `closure` is the pollInterval of the render the request was issued from.
NextIntervalNeverFast(data, closure, current) ==
  IF Len(data) > 0 THEN current
  ELSE IF closure # SlowInterval THEN SlowInterval ELSE current
NextInterval(data, closure, current) ==
  IF Len(data) > 0
  THEN IF closure # FastInterval THEN FastInterval ELSE current
  ELSE IF closure # SlowInterval THEN SlowInterval ELSE current

\* fetchDriverProfile's continuation (lines 32-35).
ProfileResponse(avail) ==
  /\ DriverIdle /\ profileReq
  /\ profileReq' = FALSE /\ loading' = FALSE
  /\ isAvailable' = avail
  /\ status' = IF avail THEN "AVAILABLE" ELSE "OFFLINE"
  /\ ApplyPolling(AfterCommit(avail, pollInterval, Polling))
  /\ UNCHANGED <<screen, mounted, riderOnlyVars, rides, updating, pollInterval, patchReqs,
                 modal, appliedStale, actionReqs, fetched, acked>>

\* fetchDriverProfile fails (lines 36-40): navigate('/') unmounts the screen.
ProfileError ==
  /\ DriverIdle /\ profileReq
  /\ profileReq' = FALSE /\ mounted' = FALSE /\ hasToken' = FALSE
  /\ ApplyPolling([Polling EXCEPT !.timers = EffectCleared(timers, pollIntervalRef),
                                  !.ref = NoTimer])
  /\ UNCHANGED <<screen, currentPos, destination, routeInfo, searchQuery, suggestions,
                 isSubmitting, bookingStatus, geoPending, debounce, searchReqs, routeReqs,
                 statusReqs, postReq, bookingData, nextBooking, foundBookings,
                 issuedAfterFound, applied, loading, status, isAvailable, rides, updating,
                 pollInterval, patchReqs, modal, appliedStale, actionReqs, fetched, acked, startName, reverseReqs, clock>>

\* A tick of the interval timer t: fetchAvailableRides of the render that set it.
DriverTick(t) ==
  /\ DriverLive /\ t \in timers
  /\ ApplyPolling(FetchIssue(Polling, t.period, FALSE))
  /\ UNCHANGED <<screen, mounted, riderOnlyVars, loading, status, isAvailable, rides, updating,
                 pollInterval, profileReq, patchReqs, modal, appliedStale, actionReqs, fetched, acked>>

\* The 8-second timer of the pending request i fires (line 57).
DriverRequestTimeout(i) ==
  /\ DriverLive /\ i \in 1..Len(ridesReqs)
  /\ Cancelled(ridesReqs, abortControllerRef) # <<>>
  /\ ridesReqs' = Surviving(ridesReqs, abortControllerRef)
  /\ micro' = micro \o Cancelled(ridesReqs, abortControllerRef)
  /\ UNCHANGED <<screen, mounted, riderOnlyVars, loading, status, isAvailable, rides, updating,
                 pollInterval, profileReq, patchReqs, modal, appliedStale, timers,
                 pollIntervalRef, abortControllerRef, pollStatus, actionReqs, fetched, acked, removed>>

\* catch block of an aborted pending-rides request (lines 90-102), run as a microtask;
\* toggleAvailability's finally follows when it was awaiting the request.
DriverCatchCancel ==
  /\ screen = "driver" /\ micro # <<>>
  /\ micro' = Tail(micro)
  /\ rides' = IF mounted THEN <<>> ELSE rides
  /\ updating' = IF mounted /\ Head(micro).toggle THEN FALSE ELSE updating
  /\ UNCHANGED <<screen, mounted, riderOnlyVars, loading, status, isAvailable, pollInterval,
                 profileReq, patchReqs, ridesReqs, modal, appliedStale, timers,
                 pollIntervalRef, abortControllerRef, pollStatus, actionReqs, fetched, acked, removed>>

\* The pending-rides endpoint answers request i with the list `data` (lines 68-88).
RidesResponse(i, data) ==
  /\ DriverLive /\ i \in 1..Len(ridesReqs)
  /\ appliedStale' = (appliedStale \/ ridesReqs[i].stale)
  /\ rides' = data
  /\ fetched' = [data |-> data, flip |-> ~fetched.flip]
  /\ pollInterval' = NextInterval(data, ridesReqs[i].interval, pollInterval)
  /\ updating' = IF ridesReqs[i].toggle THEN FALSE ELSE updating
  /\ ApplyPolling(AfterCommit(isAvailable, pollInterval',
                              [Polling EXCEPT !.reqs = RemoveAt(MarkStale(ridesReqs, i), i),
                                              !.pollStatus = "idle"]))
  /\ UNCHANGED <<screen, mounted, riderOnlyVars, loading, status, isAvailable, profileReq,
                 patchReqs, modal, actionReqs, acked>>

\* Error codes a pending-rides request can fail with, besides cancellation through the
\* abort signal: the browser aborting the connection, and a failure response.
RideErrors == {"ECONNABORTED", "ERR_BAD_RESPONSE"}
\* The poll state the catch block sets for an error that is no cancellation
\* (lines 92-100).
ErrorPollStatus(code) == IF code = "ECONNABORTED" THEN "paused" ELSE "idle"

\* Request i fails with error `code`, which is no cancellation (lines 90-102).
RidesError(i, code) ==
  /\ DriverLive /\ i \in 1..Len(ridesReqs)
  /\ appliedStale' = (appliedStale \/ ridesReqs[i].stale)
  /\ rides' = <<>>
  /\ updating' = IF ridesReqs[i].toggle THEN FALSE ELSE updating
  /\ ApplyPolling([Polling EXCEPT !.reqs = RemoveAt(ridesReqs, i),
                                  !.pollStatus = ErrorPollStatus(code)])
  /\ UNCHANGED <<screen, mounted, riderOnlyVars, loading, status, isAvailable, pollInterval,
                 profileReq, patchReqs, modal, actionReqs, fetched, acked>>

\* ------------------------------------------------------------ driver: toggleAvailability
\* Click on Go Online / Go Offline (lines 107-114); the button is disabled while updating.
toggleAvailability ==
  /\ DriverIdle /\ mounted /\ ~loading /\ ~updating
  /\ updating' = TRUE
  /\ patchReqs' = {[isAvailable |-> ~isAvailable, closureAvailable |-> isAvailable,
                    closureInterval |-> pollInterval]}
  /\ UNCHANGED <<screen, mounted, riderOnlyVars, loading, status, isAvailable, rides,
                 pollInterval, profileReq, ridesReqs, modal, appliedStale, timers, micro,
                 pollIntervalRef, abortControllerRef, pollStatus, actionReqs, fetched, acked, removed>>

\* const newAvailability = response.data.driver.isAvailable (line 116): the acknowledged
\* value, not the requested one.
NewAvailabilityOptimistic(requested, ack) == requested
NewAvailability(requested, ack) == ack
\* response.data.driver.status
DriverStatuses == {"AVAILABLE", "OFFLINE"}

\* The interval toggleAvailability leaves (lines 120-126): setPollInterval(5000) when the
\* acknowledged availability is true.
OnlineIntervalKept(ack, current) == current
OnlineInterval(ack, current) == IF ack THEN DefaultInterval ELSE current

\* The patch is acknowledged with driver.isAvailable = ack (lines 116-129, 134).  The
\* state updates are committed together and the polling effect runs on the result.
PatchResponse(r, ack, st) ==
  /\ DriverLive /\ r \in patchReqs
  /\ patchReqs' = {}
  /\ acked' = [isAvailable |-> ack, status |-> st]
  /\ isAvailable' = NewAvailability(r.isAvailable, ack)
  /\ status' = st
  /\ rides' = IF isAvailable' /\ r.closureAvailable THEN rides ELSE <<>>
  /\ pollInterval' = OnlineInterval(isAvailable', pollInterval)
  /\ updating' = (isAvailable' /\ r.closureAvailable)
  /\ LET p == IF ~isAvailable' THEN [Polling EXCEPT !.pollStatus = "idle"]
              ELSE IF r.closureAvailable THEN FetchIssue(Polling, r.closureInterval, TRUE)
              ELSE Polling
     IN ApplyPolling(AfterCommit(isAvailable', pollInterval', p))
  /\ UNCHANGED <<screen, mounted, riderOnlyVars, loading, profileReq, modal, appliedStale,
                 actionReqs, fetched>>

\* The patch fails (lines 130-132): alert.
PatchError(r) ==
  /\ DriverLive /\ r \in patchReqs
  /\ patchReqs' = {}
  /\ modal' = [kind |-> "patchFailed", booking |-> 0]
  /\ UNCHANGED <<screen, mounted, riderOnlyVars, loading, status, isAvailable, rides, updating,
                 pollInterval, profileReq, ridesReqs, appliedStale, timers, micro,
                 pollIntervalRef, abortControllerRef, pollStatus, actionReqs, fetched, acked, removed>>

\* The alert is dismissed: toggleAvailability's finally (line 134).
DismissPatchFailed ==
  /\ screen = "driver" /\ modal.kind = "patchFailed"
  /\ modal' = NoModal
  /\ updating' = FALSE
  /\ UNCHANGED <<screen, mounted, riderOnlyVars, loading, status, isAvailable, rides,
                 pollInterval, profileReq, patchReqs, ridesReqs, appliedStale, timers, micro,
                 pollIntervalRef, abortControllerRef, pollStatus, actionReqs, fetched, acked, removed>>

\* ------------------------------------------------------------ driver: accept / decline
\* rides.filter((r) => r._id !== rideId)
RemoveRideFirstOnly(list, r) == IF list # <<>> /\ list[1] = r THEN Tail(list) ELSE list
IsNotRide(x, r) == x # r
RemoveRide(list, r) == LET Keep(x) == IsNotRide(x, r) IN SelectSeq(list, Keep)

\* Click on Accept / Decline of the listed ride r (lines 139-145, 164-170).
RideButton(kind, r) ==
  /\ DriverLive /\ ~loading /\ \E i \in 1..Len(rides) : rides[i] = r
  /\ actionReqs' = actionReqs \cup {[kind |-> kind, ride |-> r]}
  /\ UNCHANGED <<screen, mounted, riderOnlyVars, loading, status, isAvailable, rides, updating,
                 pollInterval, profileReq, patchReqs, ridesReqs, fetched, modal, appliedStale,
                 timers, micro, pollIntervalRef, abortControllerRef, pollStatus, acked, removed>>
handleAccept(r) == RideButton("accept", r)
handleDecline(r) == RideButton("decline", r)

\* The accept patch q succeeds (lines 147-153): the ride leaves the list, alert.
AcceptResponse(q) ==
  /\ DriverLive /\ q \in actionReqs /\ q.kind = "accept"
  /\ actionReqs' = actionReqs \ {q}
  /\ rides' = RemoveRide(rides, q.ride)
  /\ removed' = IF ridesReqs = <<>> THEN {} ELSE removed \cup {q.ride}
  /\ modal' = [kind |-> "accepted", booking |-> 0]
  /\ UNCHANGED <<screen, mounted, riderOnlyVars, loading, status, isAvailable, updating,
                 pollInterval, profileReq, patchReqs, ridesReqs, fetched, appliedStale,
                 timers, micro, pollIntervalRef, abortControllerRef, pollStatus, acked>>

\* The "Ride accepted" alert is dismissed: navigate (line 156) unmounts the screen and
\* the polling effect's cleanup (lines 208-213) runs.
DismissAccepted ==
  /\ screen = "driver" /\ modal.kind = "accepted"
  /\ modal' = NoModal
  /\ mounted' = FALSE
  /\ timers' = EffectCleared(timers, pollIntervalRef)
  /\ pollIntervalRef' = NoTimer
  /\ UNCHANGED <<screen, riderOnlyVars, loading, status, isAvailable, rides, updating,
                 pollInterval, profileReq, patchReqs, ridesReqs, actionReqs, fetched,
                 appliedStale, micro, abortControllerRef, pollStatus, acked, removed>>

\* The decline patch q succeeds (lines 172-173): the ride leaves the list.
DeclineResponse(q) ==
  /\ DriverLive /\ q \in actionReqs /\ q.kind = "decline"
  /\ actionReqs' = actionReqs \ {q}
  /\ rides' = RemoveRide(rides, q.ride)
  /\ removed' = IF ridesReqs = <<>> THEN {} ELSE removed \cup {q.ride}
  /\ UNCHANGED <<screen, mounted, riderOnlyVars, loading, status, isAvailable, updating,
                 pollInterval, profileReq, patchReqs, ridesReqs, fetched, modal, appliedStale,
                 timers, micro, pollIntervalRef, abortControllerRef, pollStatus, acked>>

\* The accept or decline patch q fails (lines 157-160, 174-177): alert.
RideActionError(q) ==
  /\ DriverLive /\ q \in actionReqs
  /\ actionReqs' = actionReqs \ {q}
  /\ modal' = [kind |-> "rideActionFailed", booking |-> 0]
  /\ UNCHANGED <<screen, mounted, riderOnlyVars, loading, status, isAvailable, rides, updating,
                 pollInterval, profileReq, patchReqs, ridesReqs, fetched, appliedStale,
                 timers, micro, pollIntervalRef, abortControllerRef, pollStatus, acked, removed>>

\* The failure alert is dismissed: the handler returns.
DismissRideActionFailed ==
  /\ screen = "driver" /\ modal.kind = "rideActionFailed"
  /\ modal' = NoModal
  /\ UNCHANGED <<screen, mounted, riderOnlyVars, loading, status, isAvailable, rides, updating,
                 pollInterval, profileReq, patchReqs, ridesReqs, actionReqs, fetched,
                 appliedStale, timers, micro, pollIntervalRef, abortControllerRef, pollStatus, acked, removed>>

\* ------------------------------------------------------------ driver: handleLogout
\* Click on Logout (lines 216-225): the timer is cleared, the controller's request is
\* aborted, the token is dropped; navigate('/') unmounts the screen and the polling
\* effect's cleanup (lines 208-213) runs.
handleLogout ==
  /\ DriverIdle /\ mounted /\ ~loading
  /\ mounted' = FALSE /\ hasToken' = FALSE
  /\ ApplyPolling([Polling EXCEPT !.timers = EffectCleared(timers, pollIntervalRef),
                                  !.ref = NoTimer,
                                  !.reqs = Surviving(ridesReqs, abortControllerRef),
                                  !.micro = micro \o Cancelled(ridesReqs, abortControllerRef)])
  /\ UNCHANGED <<screen, currentPos, destination, routeInfo, searchQuery, suggestions,
                 isSubmitting, bookingStatus, geoPending, debounce, searchReqs, routeReqs,
                 statusReqs, postReq, bookingData, nextBooking, foundBookings,
                 issuedAfterFound, applied, loading, status, isAvailable, rides, updating,
                 pollInterval, profileReq, patchReqs, modal, appliedStale, actionReqs, fetched, acked, startName, reverseReqs, clock>>

\* ------------------------------------------------------------ specifications
\* States the rider screen is in once the user has set a trip up (reached from RiderInit
\* by GeoSuccess, TypeQuery, DebounceFire, SearchResponse, selectPlace, RouteResponse):
\*   the route request for D1 still in flight;
\*   the route for D1 on screen;
\*   the route for D1 on screen and a new query typed, its suggestions listed.
RouteOf(d) == [distance |-> ToFixed2(RouteMetres(d)), duration |-> CeilMinutes(RouteSeconds(d))]
RiderSettled ==
  /\ currentPos = "P" /\ destination = "D1" /\ geoPending = FALSE
  /\ startName = LocationName("P") /\ reverseReqs = {}
  /\ \/ routeInfo = NoRoute /\ routeReqs = {"D1"} /\ searchQuery = "" /\ suggestions = <<>>
     \/ routeInfo = RouteOf("D1") /\ routeReqs = {} /\ searchQuery = "" /\ suggestions = <<>>
     \/ routeInfo = RouteOf("D1") /\ routeReqs = {} /\ searchQuery = "Co"
        /\ suggestions = <<"D1", "D2">>
  /\ isSubmitting = FALSE /\ bookingStatus = NULL
  /\ hasToken \in BOOLEAN
  /\ debounce = {} /\ searchReqs = {}
  /\ statusReqs = <<>> /\ postReq = {} /\ bookingData = <<>>
  /\ nextBooking = 1 /\ foundBookings = {} /\ issuedAfterFound = FALSE
  /\ applied = NothingApplied

\* Booking and polling: the user confirms, resets and dismisses alerts; the trip was set
\* up before (RiderSettled) or not at all (RiderInit).
BookingNext ==
  \/ GeoSuccess \/ GeoError
  \/ \E p \in {"P", "Center"}, ok \in BOOLEAN : ReverseResponse(p, ok)
  \/ \E d \in Places, hasRoute \in BOOLEAN : RouteResponse(d, hasRoute)
  \/ handleRefresh
  \/ \E t \in timers : Tick(t)
  \/ \E i \in 1..MaxInFlight : RequestTimeout(i)
  \/ CatchCancel
  \/ \E i \in 1..MaxInFlight, s \in Statuses : StatusResponse(i, s)
  \/ \E i \in 1..MaxInFlight, code \in HttpErrors : StatusNotFound(i, code)
  \/ \E i \in 1..MaxInFlight, code \in HttpErrors : StatusError(i, code)
  \/ \E i \in 1..MaxInFlight, s \in Statuses : FallbackResponse(i, s)
  \/ saveRoute
  \/ \E data \in BookingResponses(nextBooking) : BookingResponse(data)
  \/ BookingError
  \/ DismissPrecondition \/ DismissFailure \/ DismissConfirmed \/ DismissFound

\* Setting a trip up: location, search, destination, route.
SetupNext ==
  \/ GeoSuccess \/ GeoError
  \/ \E p \in {"P", "Center"}, ok \in BOOLEAN : ReverseResponse(p, ok)
  \/ \E q \in Queries : TypeQuery(q)
  \/ \E t \in Queries : DebounceFire(t)
  \/ \E q \in Queries, ok \in BOOLEAN, data \in {<<>>, <<"D1", "D2">>} : SearchResponse(q, ok, data)
  \/ \E p \in Places : selectPlace(p)
  \/ \E d \in Places, hasRoute \in BOOLEAN : RouteResponse(d, hasRoute)
  \/ handleRefresh

DriverNext ==
  \/ \E avail \in BOOLEAN : ProfileResponse(avail)
  \/ ProfileError
  \/ \E t \in timers : DriverTick(t)
  \/ \E i \in 1..MaxInFlight : DriverRequestTimeout(i)
  \/ DriverCatchCancel
  \/ \E i \in 1..MaxInFlight, data \in RideLists : RidesResponse(i, data)
  \/ \E i \in 1..MaxInFlight, code \in RideErrors : RidesError(i, code)
  \/ toggleAvailability
  \/ \E r \in patchReqs, ack \in BOOLEAN, st \in DriverStatuses : PatchResponse(r, ack, st)
  \/ \E r \in patchReqs : PatchError(r)
  \/ DismissPatchFailed
  \/ handleLogout
  \/ \E r \in {"r1", "r2"} : handleAccept(r)
  \/ \E r \in {"r1", "r2"} : handleDecline(r)
  \/ \E q \in actionReqs : AcceptResponse(q)
  \/ \E q \in actionReqs : DeclineResponse(q)
  \/ \E q \in actionReqs : RideActionError(q)
  \/ DismissAccepted \/ DismissRideActionFailed

\* One run shows one screen: the rider's, fresh or with a trip set up, or the driver's.
Init ==
  /\ mounted = TRUE /\ clock = NoClock
  /\ SharedInit
  /\ \/ screen = "rider" /\ RiderInit /\ DriverInit
     \/ screen = "rider" /\ RiderSettled /\ DriverInit
     \/ screen = "driver" /\ RiderInit /\ geoPending /\ hasToken /\ DriverInit
Next == BookingNext \/ DriverNext
Spec == Init /\ [][Next]_vars

\* The same, and the user may also navigate away from the rider screen.
TeardownNext == Next \/ Unmount
SpecTeardown == Init /\ [][TeardownNext]_vars

SetupInit == mounted = TRUE /\ clock = NoClock /\ SharedInit /\ screen = "rider" /\ RiderInit /\ DriverInit
SpecSetup == SetupInit /\ [][SetupNext]_vars

\* Booking and polling in real time: the route is on screen, the rider is logged in, and
\* the backend answers every status request that is not cancelled, after `latency`
\* seconds, with a status that means a driver was found.
FoundStatuses == {"DRIVER_ASSIGNED", "ACCEPTED"}
TimedInit ==
  /\ mounted = TRUE /\ SharedInit /\ screen = "rider" /\ RiderSettled /\ DriverInit
  /\ hasToken /\ routeInfo = RouteOf("D1")
  /\ clock \in [latency : Latencies, sinceIssue : {0}, sinceTick : {0}]
TimedNext ==
  \/ saveRoute
  \/ \E data \in BookingResponses(nextBooking) : BookingResponse(data)
  \/ DismissPrecondition \/ DismissFailure \/ DismissConfirmed \/ DismissFound
  \/ Advance
  \/ \E t \in timers : Tick(t)
  \/ CatchCancel
  \/ \E i \in 1..MaxInFlight, s \in FoundStatuses : StatusResponse(i, s)
\* Time passes, and a task that is ready whenever the event loop is idle (a tick that is
\* due, a response that has arrived, a rejection to handle) is run; the rider dismisses
\* every alert.
TimedFairness ==
  /\ SF_vars(Advance)
  /\ SF_vars(\E t \in timers : Tick(t))
  /\ SF_vars(\E i \in 1..MaxInFlight, s \in FoundStatuses : StatusResponse(i, s))
  /\ WF_vars(CatchCancel)
  /\ WF_vars(DismissPrecondition \/ DismissFailure \/ DismissConfirmed \/ DismissFound)
SpecTimed == TimedInit /\ [][TimedNext]_vars /\ TimedFairness

\* Setting a trip up and submitting it, with a backend that rejects every booking.
TripNext == SetupNext \/ saveRoute \/ DismissPrecondition \/ BookingError \/ DismissFailure
SpecTrip == SetupInit /\ [][TripNext]_vars

\* ------------------------------------------------------------------ claims
TerminalStatuses == {"FINISHED", "COMPLETED", "CANCELLED"}
\* The step applies a status response (either endpoint).
AppliesResponse == applied' # applied
\* The poller's resources are left alone by the step.
PollerUntouched == UNCHANGED <<timers, pollIntervalRef, statusReqs, abortControllerRef, pollStatus>>

\* C1: once a response with ACCEPTED or DRIVER_ASSIGNED took the 'found' branch for a
\* booking, its interval timer is cleared as soon as the alert is dismissed, and no
\* booking-status request (primary or fallback) is issued for that booking afterwards.
C1_FoundStopsPolling ==
  /\ ~issuedAfterFound
  /\ modal = NoModal => \A t \in timers : t.id \notin foundBookings

\* C1 witness: a booking was found, the alert dismissed, and no timer is live.
C1_Witness ==
  /\ screen = "rider" /\ foundBookings # {} /\ modal = NoModal /\ micro = <<>>
  /\ timers = {} /\ pollIntervalRef = NoTimer

\* C2: at most one poll interval timer is live, on either screen.
C2_AtMostOneTimer == Cardinality(timers) <= 1

\* C2 witness: the poll cycle of booking 2 was started while the cycle of booking 1 was
\* running (its request was in flight and has just been aborted); one timer is live.
C2_Witness ==
  /\ screen = "rider" /\ pollIntervalRef = 2 /\ Cardinality(timers) = 1
  /\ micro # <<>> /\ micro[1].booking = 1

\* C3 (as claimed): the pending-rides response that switches the driver's poller from the
\* slow to the fast interval leaves exactly one timer, of period 1000 ms, none of period
\* 10000 ms, and issues no pending-rides request of its own.
C3_NoDoubleFetch ==
  [][(pollInterval = SlowInterval /\ pollInterval' = FastInterval)
       => /\ \E t \in timers' : timers' = {t} /\ t.period = FastInterval
          /\ ridesReqs' = <<>>]_vars

\* C4 (as claimed): no response is applied after the response of a later-issued request.
C4_NoStaleResponse == ~appliedStale

\* C5: saveRoute issues a create-booking request only with pickup, destination, a
\* non-zero distance and a token; otherwise it raises an alert and leaves isSubmitting,
\* booking status and the poller as they were, also when the alert is dismissed.
SaveRoutePreconditions ==
  currentPos # NULL /\ destination # NULL /\ routeInfo.distance # 0 /\ hasToken
PreconditionAlerts == {"selectBoth", "waitRoute", "loginFirst"}
C5_PreconditionsAbort ==
  /\ [][(postReq' # postReq /\ postReq' # {}) => SaveRoutePreconditions]_vars
  /\ [][(modal = NoModal /\ modal'.kind \in PreconditionAlerts)
          => /\ ~SaveRoutePreconditions
             /\ PollerUntouched /\ UNCHANGED <<isSubmitting, bookingStatus, postReq>>]_vars
  /\ [][(modal.kind \in PreconditionAlerts /\ modal' = NoModal)
          => PollerUntouched /\ UNCHANGED <<isSubmitting, bookingStatus, postReq>>]_vars
  /\ [](screen = "rider" /\ modal = NoModal /\ micro = <<>> /\ ~isSubmitting
          /\ ~SaveRoutePreconditions => postReq = {})

\* C5 witness: no token is stored, the trip is set up, the alert is shown and nothing
\* was submitted.
C5_Witness ==
  /\ modal.kind = "loginFirst" /\ ~hasToken /\ destination # NULL /\ routeInfo.distance # 0
  /\ postReq = {} /\ ~isSubmitting

\* C6: a create-booking response without bookingId, _id and id raises the failure alert;
\* the poller is not started, booking status is not seeded, and isSubmitting is false
\* once the alert is dismissed.
HasNoId(data) == data.bookingId = 0 /\ data._id = 0 /\ data.id = 0
C6_MissingIdFails ==
  /\ [](bookingData # <<>> /\ HasNoId(bookingData[1]) => modal.kind = "noBookingId")
  /\ [][(bookingData = <<>> /\ bookingData' # <<>> /\ HasNoId(bookingData'[1]))
          => PollerUntouched /\ UNCHANGED bookingStatus]_vars
  /\ [][(modal.kind = "noBookingId" /\ modal' = NoModal)
          => PollerUntouched /\ UNCHANGED bookingStatus /\ isSubmitting' = FALSE]_vars

\* C6 witness: the failure alert is up; nothing polls and no status is shown.
C6_Witness ==
  /\ modal.kind = "noBookingId" /\ bookingData # <<>> /\ HasNoId(bookingData[1])
  /\ timers = {} /\ statusReqs = <<>> /\ bookingStatus = NULL

\* C7: a create-booking response with an identifier seeds booking status to PENDING and,
\* the confirmation dismissed, starts the poller for that identifier: a status request
\* for it is in flight at once and exactly one timer, of 3000 ms, is live.
IdOf(data) == IF data.bookingId # 0 THEN data.bookingId ELSE IF data._id # 0 THEN data._id ELSE data.id
C7_SuccessStartsPoller ==
  /\ [](bookingData # <<>> /\ ~HasNoId(bookingData[1])
          => /\ modal = [kind |-> "confirmed", booking |-> IdOf(bookingData[1])]
             /\ bookingStatus = "PENDING")
  /\ [][(modal.kind = "confirmed" /\ modal' = NoModal)
          => /\ bookingStatus' = "PENDING"
             /\ timers' = {[id |-> modal.booking, period |-> RiderPollPeriod]}
             /\ pollIntervalRef' = modal.booking
             /\ Len(statusReqs') > 0
             /\ statusReqs'[Len(statusReqs')] = NewStatusReq(modal.booking)
             /\ pollStatus' = "polling"
             /\ isSubmitting' = FALSE]_vars

\* C7 witness: the poller of booking 1 has just been started.
C7_Witness ==
  /\ modal = NoModal /\ bookingStatus = "PENDING" /\ pollIntervalRef = 1
  /\ timers = {[id |-> 1, period |-> RiderPollPeriod]}
  /\ statusReqs = <<NewStatusReq(1)>> /\ pollStatus = "polling"

\* C8: the catch block of a timed-out or cancelled status request sets the poll state to
\* 'timeout' and leaves the interval timer as it is; with the timer live, the next tick
\* is enabled and issues a new request.
C8_TimeoutKeepsPolling ==
  /\ [][(micro # <<>> /\ micro' = Tail(micro) /\ screen = "rider")
          => pollStatus' = "timeout" /\ UNCHANGED <<timers, pollIntervalRef>>]_vars
  /\ [](screen = "rider" /\ pollStatus = "timeout" /\ timers # {} /\ modal = NoModal
          /\ micro = <<>> /\ PollCanIssue => ENABLED (\E t \in timers : Tick(t)))
  /\ [][(pollStatus = "timeout" /\ pollStatus' = "polling" /\ modal = NoModal)
          => /\ Len(statusReqs') > 0
             /\ statusReqs'[Len(statusReqs')].kind = "status"
             /\ statusReqs'[Len(statusReqs')].current]_vars

\* C8 witness: a request timed out, the poll state is 'timeout', the timer is live.
C8_Witness ==
  /\ screen = "rider" /\ pollStatus = "timeout" /\ timers # {} /\ statusReqs = <<>>
  /\ micro = <<>> /\ modal = NoModal

\* C9 (as claimed): a response reporting FINISHED, COMPLETED or CANCELLED, from either
\* endpoint, sets the poll state to 'idle' and clears the timer.
C9_TerminalStopsPolling ==
  [][(AppliesResponse /\ applied'.status \in TerminalStatuses)
       => pollStatus' = "idle" /\ timers' = {} /\ pollIntervalRef' = NoTimer]_vars

\* C10: a /status response with DRIVER_ASSIGNED or ACCEPTED sets the poll state to
\* 'found' and raises the alert; the alert dismissed, destination, route estimate, search
\* query, suggestions and booking status are reset and no timer is live.
C10_FoundResets ==
  /\ [][(AppliesResponse /\ applied'.via = "status" /\ applied'.status \in FoundStatuses)
          => pollStatus' = "found" /\ modal'.kind = "found"]_vars
  /\ [][(modal.kind = "found" /\ modal' = NoModal)
          => /\ destination' = NULL /\ routeInfo' = NoRoute
             /\ searchQuery' = "" /\ suggestions' = <<>>
             /\ bookingStatus' = NULL
             /\ timers' = {} /\ pollIntervalRef' = NoTimer]_vars

\* C10 witness: found through /status, alert dismissed, the screen is reset.
C10_Witness ==
  /\ applied.via = "status" /\ applied.status \in FoundStatuses /\ modal = NoModal
  /\ destination = NULL /\ routeInfo = NoRoute /\ bookingStatus = NULL /\ timers = {}
  /\ micro = <<>>

\* C11: a fallback request is issued only in place of a /status request that failed with
\* 404, one per such failure and for the same booking; a fallback response with ACCEPTED
\* takes the 'found' path (alert, then timer cleared and state reset); any other fallback
\* response, and a failed fallback, set the poll state to 'idle' and leave the timer.
IsFallback(r) == r.kind = "fallback"
IsStatus(r) == r.kind = "status"
Fallbacks(reqs) == SelectSeq(reqs, IsFallback)
Primaries(reqs) == SelectSeq(reqs, IsStatus)
C11_FallbackOn404 ==
  /\ [](\A j \in 1..Len(statusReqs) : IsFallback(statusReqs[j]) => statusReqs[j].cause = 404)
  /\ [][Len(Fallbacks(statusReqs')) > Len(Fallbacks(statusReqs))
          => /\ Len(Fallbacks(statusReqs')) = Len(Fallbacks(statusReqs)) + 1
             /\ Len(Primaries(statusReqs')) = Len(Primaries(statusReqs)) - 1
             /\ \E j \in 1..Len(statusReqs) :
                  /\ IsStatus(statusReqs[j])
                  /\ statusReqs'[Len(statusReqs')].booking = statusReqs[j].booking
             /\ UNCHANGED <<pollStatus, bookingStatus, timers, pollIntervalRef, micro>>]_vars
  /\ [][(Len(Primaries(statusReqs')) < Len(Primaries(statusReqs)) /\ ~AppliesResponse
           /\ micro' = micro /\ Len(Fallbacks(statusReqs')) = Len(Fallbacks(statusReqs)))
          => pollStatus' = "idle" /\ UNCHANGED <<timers, pollIntervalRef>>]_vars
  /\ [][(AppliesResponse /\ applied'.via = "fallback" /\ applied'.status = "ACCEPTED")
          => pollStatus' = "found" /\ modal' = [kind |-> "found", booking |-> applied'.booking]]_vars
  /\ [][(modal.kind = "found" /\ applied.via = "fallback" /\ modal' = NoModal)
          => /\ timers' = {} /\ pollIntervalRef' = NoTimer
             /\ destination' = NULL /\ routeInfo' = NoRoute /\ bookingStatus' = NULL]_vars
  /\ [][(AppliesResponse /\ applied'.via = "fallback" /\ applied'.status # "ACCEPTED")
          => pollStatus' = "idle" /\ UNCHANGED <<timers, pollIntervalRef, modal>>]_vars
  /\ [][(Len(Fallbacks(statusReqs')) < Len(Fallbacks(statusReqs)) /\ ~AppliesResponse)
          => pollStatus' = "idle" /\ UNCHANGED <<timers, pollIntervalRef, modal>>]_vars

\* C11 witness: a fallback request answered with a status other than ACCEPTED; the poll
\* state is 'idle' and the timer is live.
C11_Witness ==
  /\ applied.via = "fallback" /\ applied.status = "PENDING" /\ pollStatus = "idle"
  /\ timers = {[id |-> 1, period |-> RiderPollPeriod]} /\ statusReqs = <<>>

\* C12 (as claimed): once handleRefresh has run (booking status unset after a booking
\* was made) no timer is live, and until the next booking no booking-status response is
\* applied: every request that was in flight at the reset was aborted.
AfterReset == screen = "rider" /\ nextBooking > 1 /\ bookingStatus = NULL
C12_ResetAbortsAll ==
  /\ [](AfterReset /\ modal = NoModal => timers = {} /\ pollIntervalRef = NoTimer)
  /\ [][AfterReset => ~AppliesResponse]_vars

\* C13 (as claimed): the step that tears the screen down leaves no debounce timer pending,
\* no poll interval timer live and no poll request in flight, on either screen.
C13_TeardownReleases ==
  [][(mounted /\ ~mounted')
       => debounce' = {} /\ timers' = {} /\ statusReqs' = <<>> /\ ridesReqs' = <<>>]_vars

\* C14: whenever the driver's local availability is false no poll interval timer is
\* live, and no step that ends with availability false issues a pending-rides request.
\* A request is issued by a step when a request holds the controller's signal afterwards
\* and either none did before or the one that did was aborted in the step.
RidesIssued ==
  /\ Cancelled(ridesReqs', TRUE) # <<>>
  /\ Cancelled(ridesReqs, TRUE) = <<>> \/ Len(micro') > Len(micro)
C14_OfflineNoPolling ==
  /\ [](screen = "driver" /\ ~isAvailable => timers = {} /\ pollIntervalRef = NoTimer)
  /\ [][(screen = "driver" /\ ~isAvailable') => ~RidesIssued]_vars

\* C14 witness: the driver polled in fast mode and then went offline; no timer is live.
C14_Witness ==
  /\ screen = "driver" /\ mounted /\ ~loading /\ ~isAvailable /\ status = "OFFLINE"
  /\ pollInterval = FastInterval /\ timers = {} /\ patchReqs = {}

\* C15: when a pending-rides response is applied while the driver is available, the ride
\* list becomes the response and exactly one timer is live, of period 1000 ms for a
\* non-empty response and 10000 ms for an empty one; the timer is the one that was live
\* before when the period did not change, and a newly set one when it did.
RidesApplied == screen = "driver" /\ fetched' # fetched
C15_AdaptiveInterval ==
  [][(RidesApplied /\ isAvailable)
       => /\ rides' = fetched'.data
          /\ pollInterval' = IF Len(fetched'.data) > 0 THEN FastInterval ELSE SlowInterval
          /\ timers' = {[id |-> pollIntervalRef', period |-> pollInterval']}
          /\ pollInterval' = pollInterval => UNCHANGED <<timers, pollIntervalRef>>
          /\ pollInterval' # pollInterval => pollIntervalRef' # pollIntervalRef]_vars

\* C15 witness: the second response applied was empty; the poller runs in slow mode.
C15_Witness ==
  /\ screen = "driver" /\ isAvailable /\ mounted /\ fetched.data = <<>> /\ fetched.flip = FALSE
  /\ rides = <<>> /\ pollInterval = SlowInterval
  /\ timers = {[id |-> pollIntervalRef, period |-> SlowInterval]}

\* C16: the step in which an offline driver's patch is acknowledged with availability
\* true sets the poll interval to 5000 ms and issues a pending-rides request at once;
\* the request in flight afterwards is the one issued from the render with the 5000 ms
\* interval, and the timer set has that period, whatever the interval was before.
GoesOnline ==
  screen = "driver" /\ patchReqs # {} /\ patchReqs' = {} /\ ~isAvailable /\ isAvailable'
C16_OnlineResetsInterval ==
  [][GoesOnline
       => /\ pollInterval' = DefaultInterval
          /\ RidesIssued
          /\ ridesReqs' = <<NewRidesReq(DefaultInterval, FALSE)>>
          /\ timers' = {[id |-> pollIntervalRef', period |-> DefaultInterval]}]_vars

\* C16 witness: the driver polled before (a non-empty response set the fast interval),
\* went offline and is online again: interval 5000 ms, its first request in flight.
C16_Witness ==
  /\ screen = "driver" /\ mounted /\ isAvailable /\ ~updating /\ patchReqs = {}
  /\ fetched.data # <<>> /\ rides = <<>> /\ pollInterval = DefaultInterval
  /\ ridesReqs = <<NewRidesReq(DefaultInterval, FALSE)>> /\ micro = <<>>
  /\ timers = {[id |-> pollIntervalRef, period |-> DefaultInterval]}

\* C17 (as claimed): the catch block of a pending-rides request that was aborted, by
\* its 8-second timer or by cancellation, sets the poll state to 'paused', clears the
\* ride list and leaves the poll interval and the timer unchanged.
C17_AbortPauses ==
  [][(screen = "driver" /\ mounted /\ micro # <<>> /\ micro' = Tail(micro))
       => /\ pollStatus' = "paused" /\ rides' = <<>>
          /\ UNCHANGED <<pollInterval, timers, pollIntervalRef>>]_vars

\* C18: outside the profile load, local availability and status change only in the step
\* that takes the patch acknowledgment, and to the acknowledged values; a failed patch
\* raises an alert and, together with the alert's dismissal, leaves availability, status,
\* ride list, poll interval and timer unchanged; 'updating' is true only while
\* toggleAvailability is still running, and false once the failure alert is dismissed.
ToggleRunning ==
  \/ patchReqs # {} \/ modal.kind = "patchFailed"
  \/ \E j \in 1..Len(ridesReqs) : ridesReqs[j].toggle
  \/ \E j \in 1..Len(micro) : micro[j].toggle
ToggleFrame == UNCHANGED <<isAvailable, status, rides, pollInterval, timers, pollIntervalRef>>
PatchSettled == screen = "driver" /\ patchReqs # {} /\ patchReqs' = {}
C18_ToggleAcknowledged ==
  /\ [][(PatchSettled /\ modal'.kind # "patchFailed")
          => isAvailable' = acked'.isAvailable /\ status' = acked'.status]_vars
  /\ [][(screen = "driver" /\ ~PatchSettled /\ UNCHANGED profileReq)
          => UNCHANGED <<isAvailable, status, acked>>]_vars
  /\ [][(PatchSettled /\ modal'.kind = "patchFailed") => ToggleFrame /\ UNCHANGED acked]_vars
  /\ [][(modal.kind = "patchFailed" /\ modal' = NoModal) => ~updating' /\ ToggleFrame]_vars
  /\ [](screen = "driver" /\ mounted /\ updating => ToggleRunning)

\* C18 witness: the server acknowledged online with status "OFFLINE"; the dashboard shows
\* exactly that and the toggle has finished.
C18_Witness ==
  /\ screen = "driver" /\ mounted /\ acked = [isAvailable |-> TRUE, status |-> "OFFLINE"]
  /\ isAvailable /\ status = "OFFLINE" /\ ~updating /\ patchReqs = {} /\ modal = NoModal

\* C19: the step that takes a successful accept or decline response for ride r leaves
\* exactly the entries of the ride list whose identifier is not r, in their order, and
\* issues no pending-rides request; the step that takes a failed one raises the alert
\* and leaves the ride list unchanged.
RECURSIVE WithoutRide(_, _)
WithoutRide(list, r) ==
  IF list = <<>> THEN <<>>
  ELSE IF Head(list) = r THEN WithoutRide(Tail(list), r)
  ELSE <<Head(list)>> \o WithoutRide(Tail(list), r)
C19_RideRemoved ==
  [][(screen = "driver" /\ actionReqs' # actionReqs /\ actionReqs' \subseteq actionReqs)
       => \E q \in actionReqs \ actionReqs' :
            IF modal'.kind = "rideActionFailed"
            THEN rides' = rides
            ELSE /\ rides' = WithoutRide(rides, q.ride)
                 /\ ~RidesIssued /\ UNCHANGED <<ridesReqs, micro>>]_vars

\* C19 witness: of the two rides fetched last, r2 was removed and r1 is still listed.
C19_Witness ==
  /\ screen = "driver" /\ mounted /\ modal = NoModal /\ actionReqs = {}
  /\ fetched.data = <<"r1", "r2">> /\ rides = <<"r1">>

\* C20: at most one debounce timer is pending, for the current query, and none when the
\* query has fewer than 2 characters (a change of the query cancels the superseded
\* timer); a change to a query of 2 or more characters arms exactly the timer of that
\* query; a geocoding request is issued only by the timer of the current query firing,
\* which consumes the timer, so a burst of changes yields one request, for the last query.
TimerFired == debounce' # debounce /\ searchQuery' = searchQuery /\ mounted'
C20_DebouncedSearch ==
  /\ [](debounce \subseteq {searchQuery} /\ (QueryLen(searchQuery) < 2 => debounce = {}))
  /\ [][(searchQuery' # searchQuery /\ QueryLen(searchQuery') >= 2)
          => debounce' = {searchQuery'} /\ UNCHANGED searchReqs]_vars
  /\ [][TimerFired
          => debounce = {searchQuery} /\ debounce' = {} /\ searchQuery \in searchReqs']_vars
  /\ [][~(searchReqs' \subseteq searchReqs) => TimerFired]_vars

\* C20 witness: the query is "Col", its timer has fired, and the only geocoding request
\* in flight is the one for "Col".
C20_Witness ==
  /\ screen = "rider" /\ searchQuery = "Col" /\ debounce = {} /\ searchReqs = {"Col"}

\* C21 (as claimed): once the location resolver has finished, a position is set; the step
\* in which geolocation fails sets the fallback coordinate and issues no reverse-geocoding
\* request; the step in which it succeeds stores the position and reverse-geocodes it.
C21_LocationResolver ==
  /\ [](screen = "rider" /\ ~geoPending => currentPos # NULL)
  /\ [][(geoPending /\ ~geoPending')
          => IF currentPos' = "Center"
             THEN reverseReqs' = reverseReqs
             ELSE currentPos' = "P" /\ reverseReqs' = reverseReqs \cup {"P"}]_vars

\* C22: the fare shown on screen is 50 times the distance of the route estimate held,
\* and never negative; a create-booking request carries the distance of the route
\* estimate held when it is issued and 50 times that distance as estimatedFare
\* (distances in hundredths of a kilometre, fares in hundredths of a rupee).
FareShown == Fare(routeInfo.distance)
C22_FareInSync ==
  /\ [](screen = "rider" => FareShown = 50 * routeInfo.distance /\ FareShown >= 0)
  /\ [][(postReq' # postReq /\ postReq' # {})
          => \A r \in postReq' : /\ r.distance = routeInfo.distance
                                 /\ r.estimatedFare = 50 * r.distance
                                 /\ r.estimatedFare >= 0]_vars

\* C22 witness: a booking for 12.34 km is in flight with a fare of Rs 617.00.
C22_Witness ==
  /\ screen = "rider" /\ routeInfo.distance = 1234 /\ FareShown = 61700
  /\ \E r \in postReq : r.distance = 1234 /\ r.estimatedFare = 61700

\* C23 (as claimed): a create-booking request carries the distance, the duration and the
\* fare of the route computed for the dropoff coordinate it carries.
C23_RouteMatchesTrip ==
  [][(postReq' # postReq /\ postReq' # {})
       => \A r \in postReq' :
            /\ r.distance = RouteOf(r.dropoffCoords).distance
            /\ r.estimatedTime = RouteOf(r.dropoffCoords).duration
            /\ r.estimatedFare = 50 * RouteOf(r.dropoffCoords).distance]_vars

\* C24 (as claimed): while the driver is offline (availability false since the profile
\* load or since the last acknowledged patch), the local ride list is empty.
C24_OfflineListEmpty ==
  [](screen = "driver" /\ mounted /\ ~isAvailable => rides = <<>>)

\* C25 (as claimed): no step puts a ride back into the local ride list that was accepted
\* or declined successfully after the last pending-rides request was issued.
C25_RemovedStaysOut ==
  [][screen = "driver" => \A r \in removed : \A k \in 1..Len(rides') : rides'[k] # r]_vars

\* C27 (as claimed): from a state left by the reset (a booking was made, the booking
\* status is unset, the poll state is 'idle' and no submission is under way), every step
\* other than a new submission keeps the poll state 'idle' and the booking status unset.
ResetState ==
  /\ screen = "rider" /\ nextBooking > 1 /\ ~isSubmitting
  /\ bookingStatus = NULL /\ pollStatus = "idle"
C27_ResetStaysIdle ==
  [][(ResetState /\ ~isSubmitting') => pollStatus' = "idle" /\ bookingStatus' = NULL]_vars

\* C26 (as claimed): with a backend that answers every status request that is not
\* cancelled, after a latency below the 8-second timeout and with a found status, a
\* started poller eventually reaches 'found', and then its timer is cleared.
C26_PollerFindsDriver ==
  /\ (screen = "rider" /\ timers # {}) ~> (pollStatus = "found")
  /\ (pollStatus = "found") ~> (timers = {})

====
